---- MODULE Spec2Model ----
(***************************************************************************)
(* A model of two parts of prisma-engines:                                 *)
(*                                                                         *)
(*  - the lifecycle of the N-API QueryEngine (query-engine-napi): one      *)
(*    engine whose state  Inner  is  Builder | Connected  behind a tokio   *)
(*    RwLock, driven by connect and query calls issued concurrently from   *)
(*    the embedding process (specification Spec);                          *)
(*                                                                         *)
(*  - the datasource loader of the datamodel crate                         *)
(*    (DatasourceLoader::load_datasources_from_ast), a pure function of a  *)
(*    schema AST, the ignore-URLs flag and the URL overrides               *)
(*    (specification LoaderSpec).                                          *)
(***************************************************************************)
EXTENDS Integers, Sequences, FiniteSets, TLC

VARIABLES
    inner,       \* engine.rs: *QueryEngine.inner, the Inner enum behind the lock
    writers,     \* calls holding the RwLock write guard
    readers,     \* calls holding an RwLock read guard
    kind,        \* per call: "none" | "connect" | "query"
    pc,          \* per call: position inside connect/query
    params,      \* per call: ConnectParams.enable_raw_queries (connect only)
    borrowed,    \* per call: template and data_source taken from the Builder arm
    loaded,      \* per call: (db_name, executor) returned by exec_loader::load
    installed,   \* per call: the Inner value its connect wrote (tag None: none)
    seen,        \* per call: what a query read from the Connected state
    result,      \* per call: the crate::Result returned to the embedder
    after,       \* per call: the calls that had already returned when it was issued
    dispatched,  \* query calls that reached GraphQlHandler::handle
    loadCalls,   \* per call: number of exec_loader::load invocations
    input,       \* loader: [ast, ignore, overrides] of one load_datasources_from_ast call
    output,      \* loader: the Result of that call, or None before it ran
    legacy       \* loader: the Result of SourceLoader::load_sources on the same schema

engineVars == <<inner, writers, readers, kind, pc, params, borrowed, loaded, installed,
                seen, result, after, dispatched, loadCalls>>
loaderVars == <<input, output, legacy>>
vars == <<inner, writers, readers, kind, pc, params, borrowed, loaded, installed,
          seen, result, after, dispatched, loadCalls, input, output, legacy>>

None == "None"

(***************************************************************************)
(* Bounds                                                                  *)
(***************************************************************************)
MaxCalls == 3
MaxBlocks == 3
MaxProviders == 2

Calls == 1..MaxCalls

(***************************************************************************)
(* Engine: construction                                                    *)
(***************************************************************************)
Datamodels == {"dmA"}

\* The validated Datasources a Configuration can hold (name, active provider).
EngineDatasources ==
    { [name |-> "db", active_provider |-> "mysql"] }

\* Configuration::validate_that_one_datasource_is_provided, called by new().
validate_that_one_datasource_is_provided(datasources) == Len(datasources) > 0

\* Configurations parse_configuration can yield: the loader returns at most
\* one Datasource (multiplicity rule).
Configurations ==
    { [datasources |-> ds] :
        ds \in {<<>>} \cup { <<d>> : d \in EngineDatasources } }

\* QueryEngine::new: Inner::Builder(EngineBuilder { config, datamodel }).
new(datamodel, config) ==
    [tag |-> "Builder", datamodel |-> datamodel, config |-> config]

\* schema_builder::build(template.build(db_name), Modern, enable_raw_queries,
\* data_source.capabilities()): the schema is determined by its arguments.
build_query_schema(datamodel, db_name, enable_raw_queries, data_source) ==
    [datamodel |-> datamodel, db_name |-> db_name,
     enable_raw_queries |-> enable_raw_queries,
     capabilities |-> data_source.active_provider]

\* ConnectedEngine { query_schema, executor }
ConnectedEngine(query_schema, executor) ==
    [tag |-> "Connected", query_schema |-> query_schema, executor |-> executor]

(***************************************************************************)
(* Engine: the tokio RwLock around Inner                                   *)
(***************************************************************************)
\* Variant: the write guard excludes readers but not another writer.
CanWrite_ReadersOnly == readers = {}

\* self.inner.write().await completes only with no other guard alive.
CanWrite == writers = {} /\ readers = {}

\* Variant: a read guard is granted while a write guard is alive.
CanRead_Always == TRUE

\* self.inner.read().await completes only with no write guard alive.
CanRead == writers = {}

EngineInit ==
    /\ \E dm \in Datamodels, cfg \in Configurations :
          /\ validate_that_one_datasource_is_provided(cfg.datasources)
          /\ inner = new(dm, cfg)
    /\ writers = {}
    /\ readers = {}
    /\ kind = [c \in Calls |-> "none"]
    /\ pc = [c \in Calls |-> "idle"]
    /\ params = [c \in Calls |-> None]
    /\ borrowed = [c \in Calls |-> None]
    /\ loaded = [c \in Calls |-> None]
    /\ installed = [c \in Calls |-> [tag |-> None]]
    /\ seen = [c \in Calls |-> None]
    /\ result = [c \in Calls |-> None]
    /\ after = [c \in Calls |-> {}]
    /\ dispatched = {}
    /\ loadCalls = [c \in Calls |-> 0]

Returned == { c \in Calls : pc[c] = "done" }

(***************************************************************************)
(* Engine: connect                                                         *)
(***************************************************************************)
\* lib.rs connect: clone the engine, read ConnectParams, spawn the future.
StartConnect(c) ==
    /\ pc[c] = "idle"
    /\ \E raw \in BOOLEAN : params' = [params EXCEPT ![c] = raw]
    /\ kind' = [kind EXCEPT ![c] = "connect"]
    /\ pc' = [pc EXCEPT ![c] = "c_lock"]
    /\ after' = [after EXCEPT ![c] = Returned]
    /\ UNCHANGED <<inner, writers, readers, borrowed, loaded, installed, seen, result,
                   dispatched, loadCalls>>
    /\ UNCHANGED loaderVars

\* Variant: connect takes the shared guard, self.inner.read().await.
ConnectLock_ReadLock(c) ==
    /\ pc[c] = "c_lock"
    /\ CanRead
    /\ readers' = readers \cup {c}
    /\ pc' = [pc EXCEPT ![c] = "c_match"]
    /\ UNCHANGED <<inner, writers, kind, params, borrowed, loaded, installed, seen,
                   result, after, dispatched, loadCalls>>
    /\ UNCHANGED loaderVars

\* let mut inner = self.inner.write().await;
ConnectLock(c) ==
    /\ pc[c] = "c_lock"
    /\ CanWrite
    /\ writers' = writers \cup {c}
    /\ pc' = [pc EXCEPT ![c] = "c_match"]
    /\ UNCHANGED <<inner, readers, kind, params, borrowed, loaded, installed, seen,
                   result, after, dispatched, loadCalls>>
    /\ UNCHANGED loaderVars

\* Variant: the Connected arm answers Ok(()) instead of Err(AlreadyConnected).
ConnectMatch_Idempotent(c) ==
    /\ pc[c] = "c_match"
    /\ IF inner.tag = "Connected"
       THEN /\ result' = [result EXCEPT ![c] = "Ok"]
            /\ pc' = [pc EXCEPT ![c] = "done"]
            /\ writers' = writers \ {c}
            /\ UNCHANGED borrowed
       ELSE IF Len(inner.config.datasources) = 0
       THEN /\ result' = [result EXCEPT ![c] = "NoDataSource"]
            /\ pc' = [pc EXCEPT ![c] = "done"]
            /\ writers' = writers \ {c}
            /\ UNCHANGED borrowed
       ELSE /\ borrowed' = [borrowed EXCEPT ![c] =
                   [template |-> inner.datamodel,
                    data_source |-> Head(inner.config.datasources)]]
            /\ pc' = [pc EXCEPT ![c] = "c_load"]
            /\ UNCHANGED <<result, writers>>
    /\ UNCHANGED <<inner, readers, kind, params, loaded, installed, seen, after,
                   dispatched, loadCalls>>
    /\ UNCHANGED loaderVars

\* match *inner { Builder(ref builder) => { template = convert(&builder.datamodel);
\*                  data_source = builder.config.datasources.first().ok_or_else(..)?; ..}
\*                Connected(_) => Err(AlreadyConnected) }
\* An early return drops the write guard.
ConnectMatch(c) ==
    /\ pc[c] = "c_match"
    /\ IF inner.tag = "Connected"
       THEN /\ result' = [result EXCEPT ![c] = "AlreadyConnected"]
            /\ pc' = [pc EXCEPT ![c] = "done"]
            /\ writers' = writers \ {c}
            /\ UNCHANGED borrowed
       ELSE IF Len(inner.config.datasources) = 0
       THEN /\ result' = [result EXCEPT ![c] = "NoDataSource"]
            /\ pc' = [pc EXCEPT ![c] = "done"]
            /\ writers' = writers \ {c}
            /\ UNCHANGED borrowed
       ELSE /\ borrowed' = [borrowed EXCEPT ![c] =
                   [template |-> inner.datamodel,
                    data_source |-> Head(inner.config.datasources)]]
            /\ pc' = [pc EXCEPT ![c] = "c_load"]
            /\ UNCHANGED <<result, writers>>
    /\ UNCHANGED <<inner, readers, kind, params, loaded, installed, seen, after,
                   dispatched, loadCalls>>
    /\ UNCHANGED loaderVars

\* let (db_name, executor) = crate::exec_loader::load(&data_source).await?;
\* The loader is external: it yields a fresh executor or fails.
ConnectLoad(c) ==
    /\ pc[c] = "c_load"
    /\ loadCalls' = [loadCalls EXCEPT ![c] = @ + 1]
    /\ \E ok \in BOOLEAN :
         IF ok
         THEN /\ loaded' = [loaded EXCEPT ![c] =
                     [db_name |-> borrowed[c].data_source.name, executor |-> c]]
              /\ pc' = [pc EXCEPT ![c] = "c_conn"]
              /\ UNCHANGED <<result, writers>>
         ELSE /\ result' = [result EXCEPT ![c] = "LoadFailed"]
              /\ pc' = [pc EXCEPT ![c] = "done"]
              /\ writers' = writers \ {c}
              /\ UNCHANGED loaded
    /\ UNCHANGED <<inner, readers, kind, params, borrowed, installed, seen, after,
                   dispatched>>
    /\ UNCHANGED loaderVars

\* Variant: a failed liveness check loads the executor again instead of returning.
ConnectGetConnection_Retry(c) ==
    /\ pc[c] = "c_conn"
    /\ \E ok \in BOOLEAN :
         pc' = [pc EXCEPT ![c] = IF ok THEN "c_swap" ELSE "c_load"]
    /\ UNCHANGED <<inner, writers, readers, kind, params, borrowed, loaded, installed,
                   seen, result, after, dispatched, loadCalls>>
    /\ UNCHANGED loaderVars

\* connector.get_connection().await?;   (liveness check)
ConnectGetConnection(c) ==
    /\ pc[c] = "c_conn"
    /\ \E ok \in BOOLEAN :
         IF ok
         THEN /\ pc' = [pc EXCEPT ![c] = "c_swap"]
              /\ UNCHANGED <<result, writers>>
         ELSE /\ result' = [result EXCEPT ![c] = "ConnectionFailed"]
              /\ pc' = [pc EXCEPT ![c] = "done"]
              /\ writers' = writers \ {c}
    /\ UNCHANGED <<inner, readers, kind, params, borrowed, loaded, installed, seen,
                   after, dispatched, loadCalls>>
    /\ UNCHANGED loaderVars

\* build the query schema; *inner = Inner::Connected(engine); Ok(())
ConnectSwap(c) ==
    /\ pc[c] = "c_swap"
    /\ LET engine == ConnectedEngine(
                        build_query_schema(borrowed[c].template, loaded[c].db_name,
                                           params[c], borrowed[c].data_source),
                        loaded[c].executor)
       IN  /\ inner' = engine
           /\ installed' = [installed EXCEPT ![c] = engine]
    /\ result' = [result EXCEPT ![c] = "Ok"]
    /\ pc' = [pc EXCEPT ![c] = "done"]
    /\ writers' = writers \ {c}
    /\ UNCHANGED <<readers, kind, params, borrowed, loaded, seen, after, dispatched,
                   loadCalls>>
    /\ UNCHANGED loaderVars

(***************************************************************************)
(* Engine: query                                                           *)
(***************************************************************************)
\* lib.rs query: clone the engine, read the body, spawn the future.
StartQuery(c) ==
    /\ pc[c] = "idle"
    /\ kind' = [kind EXCEPT ![c] = "query"]
    /\ pc' = [pc EXCEPT ![c] = "q_lock"]
    /\ after' = [after EXCEPT ![c] = Returned]
    /\ UNCHANGED <<inner, writers, readers, params, borrowed, loaded, installed, seen,
                   result, dispatched, loadCalls>>
    /\ UNCHANGED loaderVars

\* self.inner.read().await
QueryLock(c) ==
    /\ pc[c] = "q_lock"
    /\ CanRead
    /\ readers' = readers \cup {c}
    /\ pc' = [pc EXCEPT ![c] = "q_match"]
    /\ UNCHANGED <<inner, writers, kind, params, borrowed, loaded, installed, seen,
                   result, after, dispatched, loadCalls>>
    /\ UNCHANGED loaderVars

\* Variant: the handler is invoked before the state is inspected.
QueryMatch_DispatchFirst(c) ==
    /\ pc[c] = "q_match"
    /\ dispatched' = dispatched \cup {c}
    /\ IF inner.tag = "Connected"
       THEN /\ seen' = [seen EXCEPT ![c] =
                   [executor |-> inner.executor, query_schema |-> inner.query_schema]]
            /\ pc' = [pc EXCEPT ![c] = "q_handle"]
            /\ UNCHANGED <<result, readers>>
       ELSE /\ result' = [result EXCEPT ![c] = "NotConnected"]
            /\ pc' = [pc EXCEPT ![c] = "done"]
            /\ readers' = readers \ {c}
            /\ UNCHANGED seen
    /\ UNCHANGED <<inner, writers, kind, params, borrowed, loaded, installed, after,
                   loadCalls>>
    /\ UNCHANGED loaderVars

\* match *guard { Connected(ref engine) => GraphQlHandler::new(executor, schema)
\*                                         .handle(query) ...,
\*                Builder(_) => Err(NotConnected) }
QueryMatch(c) ==
    /\ pc[c] = "q_match"
    /\ IF inner.tag = "Connected"
       THEN /\ seen' = [seen EXCEPT ![c] =
                   [executor |-> inner.executor, query_schema |-> inner.query_schema]]
            /\ dispatched' = dispatched \cup {c}
            /\ pc' = [pc EXCEPT ![c] = "q_handle"]
            /\ UNCHANGED <<result, readers>>
       ELSE /\ result' = [result EXCEPT ![c] = "NotConnected"]
            /\ pc' = [pc EXCEPT ![c] = "done"]
            /\ readers' = readers \ {c}
            /\ UNCHANGED <<seen, dispatched>>
    /\ UNCHANGED <<inner, writers, kind, params, borrowed, loaded, installed, after,
                   loadCalls>>
    /\ UNCHANGED loaderVars

\* Ok(handler.handle(query).await): the read guard lives until the response.
QueryHandle(c) ==
    /\ pc[c] = "q_handle"
    /\ result' = [result EXCEPT ![c] = "Response"]
    /\ pc' = [pc EXCEPT ![c] = "done"]
    /\ readers' = readers \ {c}
    /\ UNCHANGED <<inner, writers, kind, params, borrowed, loaded, installed, seen,
                   after, dispatched, loadCalls>>
    /\ UNCHANGED loaderVars

EngineNext ==
    \E c \in Calls :
        \/ StartConnect(c)
        \/ ConnectLock(c)
        \/ ConnectMatch(c)
        \/ ConnectLoad(c)
        \/ ConnectGetConnection(c)
        \/ ConnectSwap(c)
        \/ StartQuery(c)
        \/ QueryLock(c)
        \/ QueryMatch(c)
        \/ QueryHandle(c)

(***************************************************************************)
(* Loader: strings.  A string is a sequence of tokens; " " is whitespace,  *)
(* every other token is a run of non-whitespace characters.                *)
(***************************************************************************)
WS == " "

RECURSIVE trim_start(_)
trim_start(s) ==
    IF s # <<>> /\ Head(s) = WS THEN trim_start(Tail(s)) ELSE s

RECURSIVE trim_end(_)
trim_end(s) ==
    IF s # <<>> /\ s[Len(s)] = WS THEN trim_end(SubSeq(s, 1, Len(s) - 1)) ELSE s

\* str::trim
trim(s) == trim_end(trim_start(s))

\* str::is_empty
is_empty(s) == Len(s) = 0

\* str::starts_with
starts_with(s, prefix) ==
    Len(s) >= Len(prefix) /\ SubSeq(s, 1, Len(prefix)) = prefix

\* format!("{}://", provider)
dummy_url(provider) == <<provider, "://">>

RECURSIVE join(_)
\* providers.join(",")
join(names) ==
    IF names = <<>> THEN <<>>
    ELSE IF Len(names) = 1 THEN <<names[1]>>
    ELSE <<names[1], ",">> \o join(Tail(names))

(***************************************************************************)
(* Loader: spans, errors, warnings, Diagnostics                            *)
(***************************************************************************)
PREVIEW_FEATURES_KEY == "previewFeatures"
PROVIDER_KEY == "provider"
SHADOW_DATABASE_URL_KEY == "shadowDatabaseUrl"
URL_KEY == "url"

\* ast_source.span of the i-th block, and the span of one of its arguments
BlockSpan(i) == <<i, "block">>
ArgSpan(i, key) == <<i, key>>
SpanEmpty == <<0, "empty">>

\* DatamodelError::ArgumentNotFound { argument_name, span }
ArgumentNotFound(argument_name, span) ==
    [kind |-> "ArgumentNotFound", argument_name |-> argument_name, span |-> span]

new_source_argument_not_found_error(argument_name, source_name, span) ==
    [kind |-> "SourceArgumentNotFound", argument_name |-> argument_name,
     source_name |-> source_name, span |-> span]

new_functional_evaluation_error(message, span) ==
    [kind |-> "FunctionalEvaluationError", message |-> message, span |-> span]

new_source_validation_error(message, source_name, span) ==
    [kind |-> "SourceValidationError", message |-> message,
     source_name |-> source_name, span |-> span]

new_datasource_provider_not_known_error(provider, span) ==
    [kind |-> "DatasourceProviderNotKnownError", provider |-> provider, span |-> span]

new_connector_error(message, span) ==
    [kind |-> "ConnectorError", message |-> message, span |-> span]

\* the error of a value of the wrong kind:
\* "Expected a <expected> value, but received ..."
new_type_mismatch_error(expected, span) ==
    [kind |-> "TypeMismatchError", expected |-> expected, span |-> span]

\* err.description().contains("Expected a String value, but received")
is_string_type_mismatch(err) ==
    err.kind = "TypeMismatchError" /\ err.expected = "String"

new_deprecated_provider_array_warning(span) ==
    [kind |-> "DeprecatedProviderArray", span |-> span]

\* Diagnostics::new()
DiagnosticsNew == [errors |-> <<>>, warnings |-> <<>>]

\* Diagnostics::merge_error
merge_error(diagnostics, err) ==
    [diagnostics EXCEPT !.errors = Append(@, err)]

\* Diagnostics::push_warning
push_warning(diagnostics, warning) ==
    [diagnostics EXCEPT !.warnings = Append(@, warning)]

\* impl From<DatamodelError> for Diagnostics, used by `?`
FromError(err) == [errors |-> <<err>>, warnings |-> <<>>]

(***************************************************************************)
(* Loader: argument accessor and value resolver                            *)
(*                                                                         *)
(* An argument is  [k |-> "absent"]  or a value:                           *)
(*   [k |-> "str", v |-> string]          a string literal                 *)
(*   [k |-> "array", v |-> <<string..>>]  an array of string literals      *)
(*   [k |-> "env", var |-> name]          env("name")                      *)
(*   [k |-> "envbad"]                     env(..) that cannot be evaluated *)
(*   [k |-> "num"]                        a value that is not a string     *)
(***************************************************************************)
Absent == [k |-> "absent"]
Unset == <<"<unset>">>

\* Arguments::arg
arg(block, i, key) ==
    IF block[key].k = "absent"
    THEN [ok |-> FALSE, err |-> ArgumentNotFound(key, BlockSpan(i))]
    ELSE [ok |-> TRUE, val |-> block[key]]

\* ValueValidator::is_from_env
is_from_env(value) == value.k \in {"env", "envbad"}

\* ValueValidator::is_array
is_array(value) == value.k = "array"

\* ValueValidator::as_array().to_str_vec()
to_str_vec(value, span) ==
    CASE value.k = "array" -> [ok |-> TRUE, val |-> value.v]
      [] value.k = "str"   -> [ok |-> TRUE, val |-> <<value.v>>]
      [] OTHER             -> [ok |-> FALSE, err |-> new_type_mismatch_error("String", span)]

\* ValueValidator::as_str_from_env
as_str_from_env(value, span, env) ==
    CASE value.k = "str" -> [ok |-> TRUE, env_var |-> None, val |-> value.v]
      [] value.k = "env" ->
            [ok |-> TRUE, env_var |-> value.var,
             val |-> IF env[value.var] = Unset THEN <<>> ELSE env[value.var]]
      [] value.k = "envbad" ->
            [ok |-> FALSE,
             err |-> new_functional_evaluation_error("env-not-evaluable", span)]
      [] OTHER -> [ok |-> FALSE, err |-> new_type_mismatch_error("String", span)]

(***************************************************************************)
(* Loader: the provider registry                                           *)
(***************************************************************************)
\* get_builtin_datasource_providers()
source_definitions == <<"MySql", "Postgres", "Sqlite", "MsSql">>

\* DatasourceProvider::is_provider
is_provider(sd, name) ==
    CASE sd = "MySql"    -> name = "mysql"
      [] sd = "Postgres" -> name \in {"postgresql", "postgres"}
      [] sd = "Sqlite"   -> name = "sqlite"
      [] sd = "MsSql"    -> name = "sqlserver"

\* DatasourceProvider::canonical_name
canonical_name(sd) ==
    CASE sd = "MySql"    -> "mysql"
      [] sd = "Postgres" -> "postgresql"
      [] sd = "Sqlite"   -> "sqlite"
      [] sd = "MsSql"    -> "sqlserver"

\* DatasourceProvider::connector
connector(sd) == [connector |-> sd]

\* the URL prefixes a descriptor accepts
protocols(sd) ==
    CASE sd = "MySql"    -> { <<"mysql", "://">> }
      [] sd = "Postgres" -> { <<"postgresql", "://">>, <<"postgres", "://">> }
      [] sd = "Sqlite"   -> { <<"file:">> }
      [] sd = "MsSql"    -> { <<"sqlserver", "://">> }

\* DatasourceProvider::can_handle_url(source_name, url): Ok or Err(message)
can_handle_url(sd, source_name, url) ==
    IF \E p \in protocols(sd) : starts_with(url.value, p)
    THEN [ok |-> TRUE]
    ELSE [ok |-> FALSE, err |-> <<"must-start-with-protocol", source_name, canonical_name(sd)>>]

\* self.source_definitions.iter().find(|sd| sd.is_provider(provider))
get_datasource_provider(provider) ==
    LET hits == SelectSeq(source_definitions, LAMBDA sd : is_provider(sd, provider))
    IN  IF hits = <<>> THEN None ELSE Head(hits)

(***************************************************************************)
(* Loader: DatasourceLoader                                                *)
(***************************************************************************)
\* validate_datasource_url(env_var_for_url, url, source_name, url_arg)
validate_datasource_url(env_var_for_url, url, source_name, span) ==
    IF ~is_empty(url)
    THEN [ok |-> TRUE]
    ELSE LET suffix == IF env_var_for_url # None
                       THEN <<"env-var-resolved-to-empty", env_var_for_url>>
                       ELSE <<>>
             msg == <<"must-provide-nonempty-url", source_name>> \o suffix
         IN  [ok |-> FALSE, err |-> new_source_validation_error(msg, source_name, span)]

\* datasource_url_overrides.iter().find(|x| &x.0 == source_name).map(|x| &x.1)
override_url(datasource_url_overrides, source_name) ==
    LET hits == SelectSeq(datasource_url_overrides, LAMBDA x : x[1] = source_name)
    IN  IF hits = <<>> THEN None ELSE Head(hits)[2]

\* Variant: an override is looked at before the ignore flag.
resolve_url_OverrideFirst(url_arg, span, ignore_datasource_urls, datasource_url_overrides, source_name, diagnostics, providers, env) ==
    LET parsed == as_str_from_env(url_arg, span, env)
        over   == override_url(datasource_url_overrides, source_name)
    IN  IF ~parsed.ok /\ ignore_datasource_urls /\ is_string_type_mismatch(parsed.err)
        THEN [ok |-> FALSE, diag |-> merge_error(diagnostics, parsed.err)]
        ELSE IF over # None
        THEN [ok |-> TRUE, env_var |-> None, url |-> over]
        ELSE IF ignore_datasource_urls
        THEN [ok |-> TRUE, env_var |-> None, url |-> dummy_url(Head(providers))]
        ELSE IF parsed.ok
        THEN [ok |-> TRUE, env_var |-> parsed.env_var, url |-> trim(parsed.val)]
        ELSE [ok |-> FALSE, diag |-> merge_error(diagnostics, parsed.err)]

\* Variant: the written value is not trimmed.
resolve_url_NoTrim(url_arg, span, ignore_datasource_urls, datasource_url_overrides, source_name, diagnostics, providers, env) ==
    LET parsed == as_str_from_env(url_arg, span, env)
        over   == override_url(datasource_url_overrides, source_name)
    IN  IF ~parsed.ok /\ ignore_datasource_urls /\ is_string_type_mismatch(parsed.err)
        THEN [ok |-> FALSE, diag |-> merge_error(diagnostics, parsed.err)]
        ELSE IF ignore_datasource_urls
        THEN [ok |-> TRUE, env_var |-> None, url |-> dummy_url(Head(providers))]
        ELSE IF over # None
        THEN [ok |-> TRUE, env_var |-> None, url |-> over]
        ELSE IF parsed.ok
        THEN [ok |-> TRUE, env_var |-> parsed.env_var, url |-> parsed.val]
        ELSE [ok |-> FALSE, diag |-> merge_error(diagnostics, parsed.err)]

\* The (env_var_for_url, url) pair chosen by the match of get_url, or the
\* Diagnostics it returns.
resolve_url(url_arg, span, ignore_datasource_urls, datasource_url_overrides, source_name, diagnostics, providers, env) ==
    LET parsed == as_str_from_env(url_arg, span, env)
        over   == override_url(datasource_url_overrides, source_name)
    IN  IF ~parsed.ok /\ ignore_datasource_urls /\ is_string_type_mismatch(parsed.err)
        THEN [ok |-> FALSE, diag |-> merge_error(diagnostics, parsed.err)]
        ELSE IF ignore_datasource_urls
        THEN [ok |-> TRUE, env_var |-> None, url |-> dummy_url(Head(providers))]
        ELSE IF over # None
        THEN [ok |-> TRUE, env_var |-> None, url |-> over]
        ELSE IF parsed.ok
        THEN [ok |-> TRUE, env_var |-> parsed.env_var, url |-> trim(parsed.val)]
        ELSE [ok |-> FALSE, diag |-> merge_error(diagnostics, parsed.err)]

\* DatasourceLoader::get_url.  The call of validate_datasource_url hands the
\* diagnostics over, so its error is returned merged into them.
get_url(url_arg, span, ignore_datasource_urls, datasource_url_overrides, source_name, diagnostics, providers, env) ==
    LET r == resolve_url(url_arg, span, ignore_datasource_urls,
                         datasource_url_overrides, source_name, diagnostics,
                         providers, env)
    IN  IF ~r.ok THEN [ok |-> FALSE, diag |-> r.diag, pair |-> None]
        ELSE LET pair == [from_env_var |-> r.env_var, value |-> r.url]
                 v == validate_datasource_url(r.env_var, r.url, source_name, span)
             IN  IF ~v.ok
                 THEN [ok |-> FALSE, diag |-> merge_error(diagnostics, v.err), pair |-> pair]
                 ELSE [ok |-> TRUE, val |-> pair, pair |-> pair]

\* Variant: a non-empty previewFeatures list is accepted.
preview_features_guardrail_Accepting(block, i, diagnostics) ==
    LET preview_features_arg == arg(block, i, PREVIEW_FEATURES_KEY)
        parsed == IF preview_features_arg.ok
                  THEN to_str_vec(preview_features_arg.val, ArgSpan(i, PREVIEW_FEATURES_KEY))
                  ELSE [ok |-> TRUE, val |-> <<>>]
    IN  IF ~parsed.ok THEN [ok |-> FALSE, diag |-> FromError(parsed.err)]
        ELSE [ok |-> TRUE]

\* DatasourceLoader::preview_features_guardrail
preview_features_guardrail(block, i, diagnostics) ==
    LET preview_features_arg == arg(block, i, PREVIEW_FEATURES_KEY)
        span == IF preview_features_arg.ok
                THEN ArgSpan(i, PREVIEW_FEATURES_KEY) ELSE SpanEmpty
        parsed == IF preview_features_arg.ok
                  THEN to_str_vec(preview_features_arg.val, span)
                  ELSE [ok |-> TRUE, val |-> <<>>]
    IN  IF ~parsed.ok THEN [ok |-> FALSE, diag |-> FromError(parsed.err)]
        ELSE IF parsed.val = <<>> THEN [ok |-> TRUE]
        ELSE [ok |-> FALSE,
              diag |-> merge_error(diagnostics,
                          new_connector_error("preview-features-only-in-generator", span))]

\* The shadowDatabaseUrl closure of lift_datasource: the value (None when the
\* argument is absent) and the diagnostics after it ran, or its early Err.
shadow_database_url(block, i, source_name, diagnostics, env) ==
    LET value == block[SHADOW_DATABASE_URL_KEY]
        span == ArgSpan(i, SHADOW_DATABASE_URL_KEY)
    IN  IF value.k = "absent"
        THEN [ok |-> TRUE, val |-> None, diag |-> diagnostics]
        ELSE LET parsed == as_str_from_env(value, span, env)
             IN  IF ~parsed.ok THEN [ok |-> FALSE, diag |-> FromError(parsed.err)]
                 ELSE LET v == validate_datasource_url(parsed.env_var, parsed.val,
                                                       source_name, span)
                      IN  [ok |-> TRUE,
                           val |-> [from_env_var |-> parsed.env_var, value |-> parsed.val],
                           diag |-> IF v.ok THEN diagnostics
                                    ELSE merge_error(diagnostics, v.err)]

\* Variant: the lookup stops at the first declared name that has a descriptor.
all_datasource_providers_FirstOnly(providers) ==
    LET found == [n \in 1..Len(providers) |-> get_datasource_provider(providers[n])]
        hits == SelectSeq(found, LAMBDA sd : sd # None)
    IN  IF hits = <<>> THEN <<>> ELSE <<Head(hits)>>

\* providers.iter().filter_map(|provider| self.get_datasource_provider(&provider))
all_datasource_providers(providers) ==
    LET found == [n \in 1..Len(providers) |-> get_datasource_provider(providers[n])]
    IN  SelectSeq(found, LAMBDA sd : sd # None)

\* Variant: only the first recognised descriptor is asked, without fallback.
select_provider_NoFallback(all_providers, source_name, url, url_span) ==
    LET c == can_handle_url(all_providers[1], source_name, url)
    IN  IF c.ok THEN [ok |-> TRUE, provider |-> all_providers[1]]
        ELSE [ok |-> FALSE,
              err |-> new_source_validation_error(c.err, source_name, url_span)]

\* Variant: when no descriptor accepts the URL the last error is returned.
select_provider_LastError(all_providers, source_name, url, url_span) ==
    LET validated == [n \in 1..Len(all_providers) |->
                        LET c == can_handle_url(all_providers[n], source_name, url)
                        IN  IF c.ok THEN [ok |-> TRUE, provider |-> all_providers[n]]
                            ELSE [ok |-> FALSE,
                                  err |-> new_source_validation_error(c.err, source_name,
                                                                      url_span)]]
        successes == SelectSeq(validated, LAMBDA r : r.ok)
        errors    == SelectSeq(validated, LAMBDA r : ~r.ok)
    IN  IF successes # <<>> THEN Head(successes) ELSE errors[Len(errors)]

\* The tail of lift_datasource: check every recognised descriptor against the
\* URL, partition the outcomes, take the first success or else the first error.
select_provider(all_providers, source_name, url, url_span) ==
    LET validated == [n \in 1..Len(all_providers) |->
                        LET c == can_handle_url(all_providers[n], source_name, url)
                        IN  IF c.ok THEN [ok |-> TRUE, provider |-> all_providers[n]]
                            ELSE [ok |-> FALSE,
                                  err |-> new_source_validation_error(c.err, source_name,
                                                                      url_span)]]
        successes == SelectSeq(validated, LAMBDA r : r.ok)
        errors    == SelectSeq(validated, LAMBDA r : ~r.ok)
    IN  IF successes # <<>> THEN Head(successes) ELSE Head(errors)

\* An Err(Diagnostics) of lift_datasource; `at` names the returning statement
\* and `url` is the pair get_url had chosen, if it got that far.
LiftErr(diag, at, url) ==
    [ok |-> FALSE, errors |-> diag.errors, warnings |-> diag.warnings, at |-> at, url |-> url]

\* lift_datasource, lines 166-203: the provider that handles the URL makes
\* the Datasource; without one the first error is returned.
lift_finish(block, providers, url, sh, all_providers, chosen) ==
    IF chosen.ok
    THEN [ok |-> TRUE,
          subject |-> [name |-> block.name,
                       provider |-> providers,
                       active_provider |-> canonical_name(chosen.provider),
                       url |-> url,
                       shadow_database_url |-> sh.val,
                       combined_connector |->
                           [n \in 1..Len(all_providers) |-> connector(all_providers[n])],
                       active_connector |-> connector(chosen.provider)],
          warnings |-> sh.diag.warnings,
          at |-> "ok", url |-> url]
    ELSE LiftErr(merge_error(sh.diag, chosen.err), "url_shape", url)

\* lift_datasource, lines 148-164: the result g of the preview-features
\* guardrail, then the lookup of the declared names in the registry.
lift_resolve(block, i, providers, url, sh, g) ==
    IF ~g.ok THEN LiftErr(g.diag, "preview", url)
    ELSE IF all_datasource_providers(providers) = <<>>
    THEN LiftErr(merge_error(sh.diag, new_datasource_provider_not_known_error(
                     join(providers), ArgSpan(i, PROVIDER_KEY))), "provider_unknown", url)
    ELSE lift_finish(block, providers, url, sh, all_datasource_providers(providers),
                     select_provider(all_datasource_providers(providers), block.name, url,
                                     ArgSpan(i, URL_KEY)))

\* lift_datasource, lines 132-148: the result sh of the shadowDatabaseUrl
\* closure; its diagnostics are the ones every later statement uses.
lift_preview(block, i, providers, url, sh) ==
    IF ~sh.ok THEN LiftErr(sh.diag, "shadow", url)
    ELSE lift_resolve(block, i, providers, url, sh,
                      preview_features_guardrail(block, i, sh.diag))

\* lift_datasource, lines 123-132: the result u of get_url
lift_shadow(block, i, env, providers, d1, u) ==
    IF ~u.ok THEN LiftErr(u.diag, "url", u.pair)
    ELSE lift_preview(block, i, providers, u.val,
                      shadow_database_url(block, i, block.name, d1, env))

\* lift_datasource, lines 114-130: the declared names and the diagnostics d1
\* after the array-form warning
lift_url(block, i, ignore_datasource_urls, datasource_url_overrides, env, providers, d1) ==
    IF providers = <<>>
    THEN LiftErr(merge_error(d1, new_source_validation_error(
                     "provider-must-not-be-empty", block.name, ArgSpan(i, PROVIDER_KEY))),
                 "provider_empty", None)
    ELSE IF ~arg(block, i, URL_KEY).ok
    THEN LiftErr(FromError(arg(block, i, URL_KEY).err), "url_arg", None)
    ELSE lift_shadow(block, i, env, providers, d1,
                     get_url(arg(block, i, URL_KEY).val, ArgSpan(i, URL_KEY),
                             ignore_datasource_urls, datasource_url_overrides,
                             block.name, d1, providers, env))

\* lift_datasource, lines 107-112: the result parsed of to_str_vec
lift_providers(block, i, ignore_datasource_urls, datasource_url_overrides, env, parsed) ==
    IF ~parsed.ok THEN LiftErr(FromError(parsed.err), "provider_type", None)
    ELSE lift_url(block, i, ignore_datasource_urls, datasource_url_overrides, env,
                  parsed.val,
                  IF is_array(block[PROVIDER_KEY])
                  THEN push_warning(DiagnosticsNew,
                           new_deprecated_provider_array_warning(ArgSpan(i, PROVIDER_KEY)))
                  ELSE DiagnosticsNew)

\* Variant: a provider argument written as env(..) is not rejected.
lift_datasource_EnvAllowed(block, i, ignore_datasource_urls, datasource_url_overrides, env) ==
    LET provider_arg == arg(block, i, PROVIDER_KEY)
    IN  IF ~provider_arg.ok
        THEN LiftErr(FromError(provider_arg.err), "provider_arg", None)
        ELSE lift_providers(block, i, ignore_datasource_urls, datasource_url_overrides, env,
                            to_str_vec(provider_arg.val, ArgSpan(i, PROVIDER_KEY)))

\* DatasourceLoader::lift_datasource for the i-th block of the schema
lift_datasource(block, i, ignore_datasource_urls, datasource_url_overrides, env) ==
    LET provider_arg == arg(block, i, PROVIDER_KEY)
    IN  IF ~provider_arg.ok
        THEN LiftErr(FromError(provider_arg.err), "provider_arg", None)
        ELSE IF is_from_env(provider_arg.val)
        THEN LiftErr(merge_error(DiagnosticsNew, new_functional_evaluation_error(
                         "no-env-in-provider", BlockSpan(i))), "provider_env", None)
        ELSE lift_providers(block, i, ignore_datasource_urls, datasource_url_overrides, env,
                            to_str_vec(provider_arg.val, ArgSpan(i, PROVIDER_KEY)))

\* Variant: every error is pushed as lift_datasource returned it.
retag_Untagged(errors, source_name) == errors

\* The Lift-error arm of load_datasources_from_ast: ArgumentNotFound is
\* re-tagged with the block's name, every other error is pushed as it is.
retag(errors, source_name) ==
    [n \in 1..Len(errors) |->
        IF errors[n].kind = "ArgumentNotFound"
        THEN new_source_argument_not_found_error(errors[n].argument_name, source_name,
                                                 errors[n].span)
        ELSE errors[n]]

\* Variant: the errors are raised from the third Datasource on.
multiplicity_errors_Threshold(ast, sources) ==
    IF Len(sources) > 2
    THEN [i \in 1..Len(ast) |->
            new_source_validation_error("more-than-one-datasource", ast[i].name, BlockSpan(i))]
    ELSE <<>>

\* The `if sources.len() > 1` block of load_datasources_from_ast
multiplicity_errors(ast, sources) ==
    IF Len(sources) > 1
    THEN [i \in 1..Len(ast) |->
            new_source_validation_error("more-than-one-datasource", ast[i].name, BlockSpan(i))]
    ELSE <<>>

\* The body of the loop of load_datasources_from_ast for one block: r is what
\* lift_datasource returned for it.
collect(acc, r, source_name) ==
    IF r.ok
    THEN [sources  |-> Append(acc.sources, r.subject),
          errors   |-> acc.errors,
          warnings |-> acc.warnings \o r.warnings,
          lifted   |-> Append(acc.lifted, r)]
    ELSE [sources  |-> acc.sources,
          errors   |-> acc.errors \o retag(r.errors, source_name),
          warnings |-> acc.warnings \o r.warnings,
          lifted   |-> Append(acc.lifted, r)]

RECURSIVE lift_all(_, _, _, _, _, _)
\* The `for src in &ast_schema.sources()` loop of load_datasources_from_ast,
\* from block i on; acc holds sources, diagnostics and the per-block results.
lift_all(ast, i, ignore_datasource_urls, datasource_url_overrides, env, acc) ==
    IF i > Len(ast) THEN acc
    ELSE lift_all(ast, i + 1, ignore_datasource_urls, datasource_url_overrides, env,
                  collect(acc,
                          lift_datasource(ast[i], i, ignore_datasource_urls,
                                          datasource_url_overrides, env),
                          ast[i].name))

\* The end of load_datasources_from_ast: the multiplicity rule and the Result
finish(ast, acc, errors) ==
    IF errors # <<>>
    THEN [ok |-> FALSE, errors |-> errors, warnings |-> acc.warnings,
          lifted |-> acc.lifted]
    ELSE [ok |-> TRUE, subject |-> acc.sources, warnings |-> acc.warnings,
          lifted |-> acc.lifted]

\* the pass, given the outcome acc of its loop
after_loop(ast, acc) ==
    finish(ast, acc, acc.errors \o multiplicity_errors(ast, acc.sources))

\* DatasourceLoader::load_datasources_from_ast.  `lifted` keeps what
\* lift_datasource returned for each block.
load_datasources_from_ast(ast, ignore_datasource_urls, datasource_url_overrides, env) ==
    after_loop(ast,
               lift_all(ast, 1, ignore_datasource_urls, datasource_url_overrides, env,
                        [sources |-> <<>>, errors |-> <<>>, warnings |-> <<>>,
                         lifted |-> <<>>]))

(***************************************************************************)
(* Loader: SourceLoader, the earlier loader of source blocks.  It takes    *)
(* the schema and one flag, ignore_env_var_errors, and its per-block       *)
(* function returns a single DatamodelError.                               *)
(***************************************************************************)
\* get_builtin_sources()
get_builtin_sources == <<"MySql", "Postgres", "Sqlite">>

new_source_not_known_error(source, span) ==
    [kind |-> "SourceNotKnownError", source |-> source, span |-> span]

\* self.source_definitions.iter().find(|sd| sd.is_provider(provider))
get_source_definition_for_provider(provider) ==
    LET hits == SelectSeq(get_builtin_sources, LAMBDA sd : is_provider(sd, provider))
    IN  IF hits = <<>> THEN None ELSE Head(hits)

\* the match of load_source that picks an ExampleConnector by provider name
example_connector(provider) ==
    CASE provider = "mysql" -> "mysql"
      [] provider \in {"postgres", "postgresql"} -> "postgres"
      [] provider = "sqlite" -> "sqlite"
      [] OTHER -> None

\* SourceDefinition::create: the Source, or Err(message) for a URL that does
\* not start with a protocol of the definition
create(sd, source_name, url, combined_connector) ==
    IF \E p \in protocols(sd) : starts_with(url.value, p)
    THEN [ok |-> TRUE,
          subject |-> [name |-> source_name, connector_type |-> canonical_name(sd),
                       url |-> url, combined_connector |-> combined_connector]]
    ELSE [ok |-> FALSE, err |-> <<"must-start-with-protocol", source_name, canonical_name(sd)>>]

\* load_source, lines 115-153: the combined connector, then the first
\* declared provider that has a definition creates the Source
load_source_create(block, i, providers, url) ==
    LET connectors == SelectSeq([n \in 1..Len(providers) |-> example_connector(providers[n])],
                                LAMBDA c : c # None)
        defs == SelectSeq([n \in 1..Len(providers) |->
                              get_source_definition_for_provider(providers[n])],
                          LAMBDA sd : sd # None)
    IN  IF defs = <<>>
        THEN [ok |-> FALSE,
              err |-> new_source_not_known_error(join(providers), ArgSpan(i, PROVIDER_KEY))]
        ELSE LET made == create(Head(defs), block.name, url, connectors)
             IN  IF made.ok THEN made
                 ELSE [ok |-> FALSE,
                       err |-> new_source_validation_error(made.err, block.name,
                                                           ArgSpan(i, URL_KEY))]

\* load_source, lines 80-113: the url argument, its value by mode and the
\* check that it is not empty
load_source_url(block, i, ignore_env_var_errors, env, providers) ==
    LET url_args == arg(block, i, URL_KEY)
        parsed == as_str_from_env(block[URL_KEY], ArgSpan(i, URL_KEY), env)
    IN  IF ~url_args.ok THEN [ok |-> FALSE, err |-> url_args.err]
        ELSE IF ~ignore_env_var_errors /\ ~parsed.ok THEN [ok |-> FALSE, err |-> parsed.err]
        ELSE LET pair == IF ignore_env_var_errors
                         THEN [from_env_var |-> None, value |-> dummy_url(Head(providers))]
                         ELSE [from_env_var |-> parsed.env_var, value |-> trim(parsed.val)]
                 v == validate_datasource_url(pair.from_env_var, pair.value, block.name,
                                              ArgSpan(i, URL_KEY))
             IN  IF ~v.ok THEN [ok |-> FALSE, err |-> v.err]
                 ELSE load_source_create(block, i, providers, pair)

\* SourceLoader::load_source for the i-th block of the schema
load_source(block, i, ignore_env_var_errors, env) ==
    LET provider_arg == arg(block, i, PROVIDER_KEY)
        providers == to_str_vec(block[PROVIDER_KEY], ArgSpan(i, PROVIDER_KEY))
    IN  IF ~provider_arg.ok THEN [ok |-> FALSE, err |-> provider_arg.err]
        ELSE IF is_from_env(provider_arg.val)
        THEN [ok |-> FALSE,
              err |-> new_functional_evaluation_error("no-env-in-provider", BlockSpan(i))]
        ELSE IF ~providers.ok THEN [ok |-> FALSE, err |-> providers.err]
        ELSE IF providers.val = <<>>
        THEN [ok |-> FALSE,
              err |-> new_source_validation_error("provider-must-not-be-empty", block.name,
                                                  ArgSpan(i, PROVIDER_KEY))]
        ELSE load_source_url(block, i, ignore_env_var_errors, env, providers.val)

\* The body of the loop of load_sources for one block: r is what load_source
\* returned for it.
push_source(acc, r, source_name) ==
    IF r.ok
    THEN [sources |-> Append(acc.sources, r.subject), errors |-> acc.errors,
          loaded |-> Append(acc.loaded, r)]
    ELSE IF r.err.kind = "ArgumentNotFound"
    THEN [sources |-> acc.sources,
          errors |-> Append(acc.errors,
                        new_source_argument_not_found_error(r.err.argument_name, source_name,
                                                            r.err.span)),
          loaded |-> Append(acc.loaded, r)]
    ELSE [sources |-> acc.sources, errors |-> Append(acc.errors, r.err),
          loaded |-> Append(acc.loaded, r)]

RECURSIVE load_all(_, _, _, _, _)
\* The `for src in &ast_schema.sources()` loop of load_sources, from block i on
load_all(ast, i, ignore_env_var_errors, env, acc) ==
    IF i > Len(ast) THEN acc
    ELSE load_all(ast, i + 1, ignore_env_var_errors, env,
                  push_source(acc, load_source(ast[i], i, ignore_env_var_errors, env),
                              ast[i].name))

\* the Result of load_sources, given the outcome acc of its loop
load_result(acc) ==
    IF acc.errors # <<>>
    THEN [ok |-> FALSE, errors |-> acc.errors, loaded |-> acc.loaded]
    ELSE [ok |-> TRUE, subject |-> acc.sources, loaded |-> acc.loaded]

\* SourceLoader::load_sources.  `loaded` keeps what load_source returned for
\* each block.
load_sources(ast, ignore_env_var_errors, env) ==
    load_result(load_all(ast, 1, ignore_env_var_errors, env,
                         [sources |-> <<>>, errors |-> <<>>, loaded |-> <<>>]))

(***************************************************************************)
(* Loader: the inputs of one validation pass                               *)
(***************************************************************************)
\* All sequences over S of length lo..hi
SeqsOf(S, lo, hi) == UNION { [1..n -> S] : n \in lo..hi }

MYSQL_URL == <<"mysql", "://", "h">>
FILE_URL == <<"file:", "x">>
PG_URL == <<"postgresql", "://", "h">>

\* strings written as url values, and values of environment variables
UrlStrings == { <<>>, <<WS>>, MYSQL_URL, <<WS>> \o MYSQL_URL \o <<WS>>, FILE_URL, PG_URL }
EnvValues == { Unset, <<>>, <<WS>>, MYSQL_URL, <<WS>> \o FILE_URL }
EnvVars == {"DATABASE_URL", "SHADOW_URL"}

ProviderNames == {"mysql", "postgresql", "postgres", "sqlite", "sqlserver", "foo"}
ArrayNames == {"mysql", "postgres", "sqlite", "foo"}

ProviderArgs ==
    {Absent, [k |-> "env", var |-> "DATABASE_URL"], [k |-> "num"]}
    \cup { [k |-> "str", v |-> n] : n \in ProviderNames }
    \cup { [k |-> "array", v |-> a] : a \in SeqsOf(ArrayNames, 0, MaxProviders) }

UrlArgs ==
    {Absent, [k |-> "num"], [k |-> "envbad"], [k |-> "env", var |-> "DATABASE_URL"]}
    \cup { [k |-> "str", v |-> u] : u \in UrlStrings }

ShadowArgs ==
    {Absent, [k |-> "num"], [k |-> "env", var |-> "SHADOW_URL"],
     [k |-> "str", v |-> <<>>], [k |-> "str", v |-> MYSQL_URL]}

PreviewArgs ==
    {Absent, [k |-> "num"], [k |-> "array", v |-> <<>>], [k |-> "array", v |-> <<"x">>]}

Block(name, provider, url, shadow, preview) ==
    [name |-> name, provider |-> provider, url |-> url,
     shadowDatabaseUrl |-> shadow, previewFeatures |-> preview]

\* blocks that vary the provider and url arguments
UrlBlocks ==
    { Block("db", p, u, Absent, Absent) : p \in ProviderArgs, u \in UrlArgs }

\* blocks that vary the shadowDatabaseUrl and previewFeatures arguments
TailBlocks ==
    { Block("db", p, [k |-> "str", v |-> u], s, f) :
        p \in { [k |-> "str", v |-> "mysql"], [k |-> "str", v |-> "foo"],
                [k |-> "array", v |-> <<"postgres", "mysql">>] },
        u \in { MYSQL_URL, FILE_URL, <<>> },
        s \in ShadowArgs, f \in PreviewArgs }

\* blocks that declare preview features and vary the url argument
PreviewBlocks ==
    { Block("db", [k |-> "str", v |-> "mysql"], u, Absent, [k |-> "array", v |-> <<"x">>]) :
        u \in UrlArgs }

\* the blocks of schemas with one datasource
AllBlocks == UrlBlocks \cup TailBlocks \cup PreviewBlocks

\* the blocks of schemas with several datasources
CoreBlocks ==
    { Block("db", [k |-> "str", v |-> "mysql"], [k |-> "str", v |-> MYSQL_URL],
            Absent, Absent),
      Block("db2", [k |-> "str", v |-> "sqlite"], [k |-> "env", var |-> "DATABASE_URL"],
            Absent, Absent),
      Block("db3", [k |-> "array", v |-> <<"postgres", "mysql">>],
            [k |-> "str", v |-> MYSQL_URL], Absent, Absent),
      Block("db4", [k |-> "str", v |-> "foo"], [k |-> "str", v |-> MYSQL_URL],
            Absent, Absent),
      Block("db5", Absent, [k |-> "str", v |-> MYSQL_URL], Absent, Absent),
      Block("db6", [k |-> "str", v |-> "mysql"], [k |-> "str", v |-> <<>>],
            [k |-> "str", v |-> <<>>], [k |-> "array", v |-> <<"x">>]) }

Schemas ==
    {<<>>} \cup { <<b>> : b \in AllBlocks } \cup SeqsOf(CoreBlocks, 2, MaxBlocks)

Overrides ==
    { <<>>,
      << <<"db", MYSQL_URL>> >>,
      << <<"db", <<>> >> >>,
      << <<"other", <<>> >>, <<"db", FILE_URL>> >> }

\* the environment variables a schema reads
UsedVars(ast) ==
    { v \in EnvVars : \E i \in 1..Len(ast) :
        \E key \in {PROVIDER_KEY, URL_KEY, SHADOW_DATABASE_URL_KEY} :
            ast[i][key].k = "env" /\ ast[i][key].var = v }

\* a fixed engine, for the behaviours of the loader
EngineIdle ==
    /\ inner = new("dmA", [datasources |-> <<[name |-> "db", active_provider |-> "mysql"]>>])
    /\ writers = {}
    /\ readers = {}
    /\ kind = [c \in Calls |-> "none"]
    /\ pc = [c \in Calls |-> "idle"]
    /\ params = [c \in Calls |-> None]
    /\ borrowed = [c \in Calls |-> None]
    /\ loaded = [c \in Calls |-> None]
    /\ installed = [c \in Calls |-> [tag |-> None]]
    /\ seen = [c \in Calls |-> None]
    /\ result = [c \in Calls |-> None]
    /\ after = [c \in Calls |-> {}]
    /\ dispatched = {}
    /\ loadCalls = [c \in Calls |-> 0]

LoaderInit ==
    /\ EngineIdle
    /\ \E ast \in Schemas, ignore \in BOOLEAN, overrides \in Overrides,
          env \in [EnvVars -> EnvValues] :
          /\ \A v \in EnvVars \ UsedVars(ast) : env[v] = Unset
          /\ input = [ast |-> ast, ignore |-> ignore, overrides |-> overrides, env |-> env]
    /\ output = [ran |-> FALSE]
    /\ legacy = [ran |-> FALSE]

\* one call of load_datasources_from_ast
Load ==
    /\ ~output.ran
    /\ output' = [ran |-> TRUE,
                  res |-> load_datasources_from_ast(input.ast, input.ignore,
                                                    input.overrides, input.env)]
    /\ UNCHANGED <<input, legacy, engineVars>>

\* one call of SourceLoader::load_sources, the flag being ignore_env_var_errors
LoadSources ==
    /\ ~legacy.ran
    /\ legacy' = [ran |-> TRUE, res |-> load_sources(input.ast, input.ignore, input.env)]
    /\ UNCHANGED <<input, output, engineVars>>

LoaderNext == Load \/ LoadSources

LoaderSpec == LoaderInit /\ [][LoaderNext]_vars

Init == EngineInit /\ input = None /\ output = [ran |-> FALSE] /\ legacy = [ran |-> FALSE]

Next == EngineNext

Spec == Init /\ [][Next]_vars

(***************************************************************************)
(* Datasource loader properties                                            *)
(***************************************************************************)
Blocks == 1..Len(input.ast)
Lifted(i) == output.res.lifted[i]

\* the declared provider names of a block with a literal provider argument
DeclaredNames(b) == IF b.provider.k = "str" THEN <<b.provider.v>> ELSE b.provider.v

LiteralProvider(b) == b.provider.k \in {"str", "array"} /\ DeclaredNames(b) # <<>>

\* the string the url argument was written with, environment resolved
WrittenUrl(b) ==
    IF b.url.k = "str" THEN b.url.v
    ELSE IF input.env[b.url.var] = Unset THEN <<>> ELSE input.env[b.url.var]

StringShaped(a) == a.k \in {"str", "env"}

HasOverride(b) == \E n \in 1..Len(input.overrides) : input.overrides[n][1] = b.name

FirstOverride(b) ==
    input.overrides[CHOOSE n \in 1..Len(input.overrides) :
        /\ input.overrides[n][1] = b.name
        /\ \A m \in 1..(n - 1) : input.overrides[m][1] # b.name][2]

\* the URL of a block with a literal provider and a string-shaped url
\* argument, by resolution mode: placeholder, override, trimmed written value
ExpectedUrl(b) ==
    IF input.ignore THEN <<Head(DeclaredNames(b)), "://">>
    ELSE IF HasOverride(b) THEN FirstOverride(b)
    ELSE trim(WrittenUrl(b))

\* positions of the declared names a registry descriptor recognises
Recognised(b) ==
    { n \in 1..Len(DeclaredNames(b)) : get_datasource_provider(DeclaredNames(b)[n]) # None }

Descriptor(b, n) == get_datasource_provider(DeclaredNames(b)[n])

Accepting(b, url) ==
    { n \in Recognised(b) : can_handle_url(Descriptor(b, n), b.name, url).ok }

Min(S) == CHOOSE n \in S : \A m \in S : n <= m

NoPreview(b) ==
    b.previewFeatures = Absent \/ b.previewFeatures = [k |-> "array", v |-> <<>>]

ShadowResolved(b) ==
    IF b.shadowDatabaseUrl.k = "str" THEN b.shadowDatabaseUrl.v
    ELSE IF input.env[b.shadowDatabaseUrl.var] = Unset THEN <<>>
    ELSE input.env[b.shadowDatabaseUrl.var]

ShadowEmpty(b) == StringShaped(b.shadowDatabaseUrl) /\ ShadowResolved(b) = <<>>

ShadowFine(b) ==
    b.shadowDatabaseUrl = Absent
    \/ (StringShaped(b.shadowDatabaseUrl) /\ ShadowResolved(b) # <<>>)

LoadsOne ==
    /\ output.res.ok
    /\ Len(output.res.subject) = 1
    /\ output.res.subject[1].active_provider # ""

\* C6 as stated: a schema with exactly one datasource block, every argument
\* of it well-formed, whose URL is non-empty, loads to exactly one
\* Datasource with a non-empty active provider name.
C6_Original ==
    (/\ output.ran
     /\ Len(input.ast) = 1
     /\ LiteralProvider(input.ast[1])
     /\ StringShaped(input.ast[1].url)
     /\ trim(WrittenUrl(input.ast[1])) # <<>>
     /\ input.ast[1].shadowDatabaseUrl.k \in {"absent", "str", "env"}
     /\ input.ast[1].previewFeatures.k \in {"absent", "array"})
        => LoadsOne

C6_Pre ==
    /\ output.ran
    /\ Len(input.ast) = 1
    /\ LiteralProvider(input.ast[1])
    /\ StringShaped(input.ast[1].url)
    /\ ExpectedUrl(input.ast[1]) # <<>>
    /\ Accepting(input.ast[1], [value |-> ExpectedUrl(input.ast[1])]) # {}
    /\ ShadowFine(input.ast[1])
    /\ NoPreview(input.ast[1])

\* C6 (amended): a schema with exactly one datasource block whose provider
\* is a literal list naming at least one registered provider that accepts
\* the resolved URL, whose url is string-shaped and resolves to a non-empty
\* string, whose shadowDatabaseUrl is absent or non-empty and whose
\* previewFeatures is absent or empty, loads to exactly one Datasource with a
\* non-empty active provider name.
C6_SingleValidBlockLoads == C6_Pre => LoadsOne

\* the accepting provider is not the first recognised one
C6_Witness ==
    /\ C6_Pre
    /\ Min(Accepting(input.ast[1], [value |-> ExpectedUrl(input.ast[1])]))
          # Min(Recognised(input.ast[1]))
    /\ ~input.ignore

IsMultiplicity(e) ==
    e.kind = "SourceValidationError" /\ e.message = "more-than-one-datasource"

MultiplicityErrors ==
    IF output.res.ok THEN <<>> ELSE SelectSeq(output.res.errors, IsMultiplicity)

Successes == { i \in Blocks : Lifted(i).ok }

\* C7 as stated: with more than one successful block the pass returns no
\* Datasource and the multiplicity errors are one per successful block; with
\* at most one successful block there is no multiplicity error.
C7_Original ==
    output.ran =>
        IF Cardinality(Successes) > 1
        THEN /\ ~output.res.ok
             /\ Len(MultiplicityErrors) = Cardinality(Successes)
        ELSE MultiplicityErrors = <<>>

\* C7 (amended): with more than one successful block the pass returns no
\* Datasource and reports exactly one multiplicity error for every
\* datasource block of the schema, in block order, failed blocks included;
\* with at most one successful block there is no multiplicity error.
C7_MultiplicityPerBlock ==
    output.ran =>
        IF Cardinality(Successes) > 1
        THEN /\ ~output.res.ok
             /\ MultiplicityErrors =
                    [i \in Blocks |->
                        new_source_validation_error("more-than-one-datasource",
                                                    input.ast[i].name, BlockSpan(i))]
        ELSE MultiplicityErrors = <<>>

C7_Witness ==
    /\ output.ran
    /\ Cardinality(Successes) = 2
    /\ Len(input.ast) = 3
    /\ Len(MultiplicityErrors) = 3

IsUrlShape(e) ==
    /\ e.kind = "SourceValidationError"
    /\ e.message # "more-than-one-datasource"
    /\ e.message # "provider-must-not-be-empty"
    /\ e.message[1] = "must-start-with-protocol"

EmptyUrlError(b, i, env_var) ==
    new_source_validation_error(
        <<"must-provide-nonempty-url", b.name>> \o
            (IF env_var = None THEN <<>> ELSE <<"env-var-resolved-to-empty", env_var>>),
        b.name, ArgSpan(i, URL_KEY))

Contains(seq, e) == \E n \in 1..Len(seq) : seq[n] = e

\* C9: every Datasource of a successful load has a non-empty URL; a block
\* with a literal provider whose URL resolves to the empty string (an empty
\* override; without override a literal or an environment value that is
\* empty once trimmed) fails, and the pass reports the empty-URL error naming
\* the datasource, and the environment variable when the value came from one.
C9_UrlNeverEmpty ==
    output.ran =>
        /\ output.res.ok =>
              \A n \in 1..Len(output.res.subject) : output.res.subject[n].url.value # <<>>
        /\ \A i \in Blocks :
              LET b == input.ast[i]
              IN  /\ Lifted(i).ok => Lifted(i).subject.url.value # <<>>
                  /\ (/\ LiteralProvider(b)
                      /\ ~input.ignore
                      /\ \/ (HasOverride(b) /\ b.url # Absent)
                         \/ StringShaped(b.url)
                      /\ ExpectedUrl(b) = <<>>)
                     => LET var == IF ~HasOverride(b) /\ b.url.k = "env"
                                   THEN b.url.var ELSE None
                        IN  /\ ~Lifted(i).ok
                            /\ Contains(Lifted(i).errors, EmptyUrlError(b, i, var))
                            /\ ~output.res.ok
                            /\ Contains(output.res.errors, EmptyUrlError(b, i, var))

\* an environment variable holding only whitespace
C9_Witness ==
    /\ output.ran
    /\ ~input.ignore
    /\ \E i \in Blocks :
          /\ input.ast[i].url.k = "env"
          /\ ~HasOverride(input.ast[i])
          /\ input.env[input.ast[i].url.var] = <<WS>>
          /\ Lifted(i).at = "url"

\* C10 as stated: a block whose shadowDatabaseUrl is present and resolves to
\* the empty string produces no Datasource.
C10_Original ==
    output.ran =>
        \A i \in Blocks : ShadowEmpty(input.ast[i]) => ~Lifted(i).ok

\* the warning lift_datasource raises for the array-form provider of block i
ArrayWarning(i) == new_deprecated_provider_array_warning(ArgSpan(i, PROVIDER_KEY))

\* C11 as stated: the deprecation warning raised for a block whose provider
\* argument is written in array form is among the warnings of the pass,
\* whether the block then succeeds or fails at a later step.
C11_Original ==
    output.ran =>
        \A i \in Blocks :
            is_array(input.ast[i].provider)
                => Contains(output.res.warnings, ArrayWarning(i))

\* an error as the pass reports it for a block named source_name
Retagged(e, source_name) ==
    IF e.kind = "ArgumentNotFound"
    THEN [kind |-> "SourceArgumentNotFound", argument_name |-> e.argument_name,
          source_name |-> source_name, span |-> e.span]
    ELSE e

RECURSIVE Flatten(_, _)
\* the concatenation of the sequences E[i], E[i+1], ...
Flatten(E, i) == IF i > Len(E) THEN <<>> ELSE E[i] \o Flatten(E, i + 1)

\* the errors individual validation returned for block i, by loader
BlockErrors(i) == IF Lifted(i).ok THEN <<>> ELSE Lifted(i).errors
Loaded(i) == legacy.res.loaded[i]
SourceErrors(i) == IF Loaded(i).ok THEN <<>> ELSE <<Loaded(i).err>>

\* the errors of a pass
PassErrors(res) == IF res.ok THEN <<>> ELSE res.errors

DisallowedIndirection(i) ==
    [kind |-> "FunctionalEvaluationError", message |-> "no-env-in-provider",
     span |-> BlockSpan(i)]

\* C13: for every block whose provider argument is written as env(..), in
\* either loader, whatever the url argument, the flag and the overrides are:
\* the block produces no Datasource, the only error returned for it is the
\* functional-evaluation error at the span of the block, and the pass fails
\* reporting that error.
C13_ProviderFromEnvRejected ==
    \A i \in Blocks :
        input.ast[i].provider.k = "env" =>
            /\ output.ran =>
                  /\ ~Lifted(i).ok
                  /\ Lifted(i).errors = <<DisallowedIndirection(i)>>
                  /\ ~output.res.ok
                  /\ Contains(output.res.errors, DisallowedIndirection(i))
            /\ legacy.ran =>
                  /\ ~Loaded(i).ok
                  /\ Loaded(i).err = DisallowedIndirection(i)
                  /\ ~legacy.res.ok
                  /\ Contains(legacy.res.errors, DisallowedIndirection(i))

\* the variable names a provider and the url is valid for it
C13_Witness ==
    /\ output.ran
    /\ legacy.ran
    /\ ~input.ignore
    /\ \E i \in Blocks :
          /\ input.ast[i].provider.k = "env"
          /\ input.env[input.ast[i].provider.var] = MYSQL_URL
          /\ input.ast[i].url = [k |-> "str", v |-> MYSQL_URL]

NonEmptyPreview(b) == b.previewFeatures.k = "array" /\ b.previewFeatures.v # <<>>

PreviewError(i) ==
    [kind |-> "ConnectorError", message |-> "preview-features-only-in-generator",
     span |-> ArgSpan(i, PREVIEW_FEATURES_KEY)]

\* the url argument of b yields a non-empty URL in the mode in force
UrlResolves(b) ==
    /\ b.url # Absent
    /\ IF input.ignore THEN b.url.k # "num"
       ELSE IF HasOverride(b) THEN FirstOverride(b) # <<>>
       ELSE StringShaped(b.url) /\ trim(WrittenUrl(b)) # <<>>

\* the steps of validation before the guardrail do not fail b
ReachesGuardrail(b) ==
    /\ LiteralProvider(b)
    /\ UrlResolves(b)
    /\ (b.shadowDatabaseUrl = Absent \/ StringShaped(b.shadowDatabaseUrl))

\* C14 as stated: a block that declares a non-empty previewFeatures list
\* fails with the preview-features error, whatever its other fields are; a
\* block whose previewFeatures is absent or empty is not failed by the
\* guardrail.
C14_Original ==
    output.ran =>
        \A i \in Blocks :
            /\ NonEmptyPreview(input.ast[i])
                  => (~Lifted(i).ok /\ Contains(Lifted(i).errors, PreviewError(i)))
            /\ NoPreview(input.ast[i])
                  => (Lifted(i).at # "preview"
                      /\ (~Lifted(i).ok => ~Contains(Lifted(i).errors, PreviewError(i))))

\* C14 (amended): a block that declares a non-empty previewFeatures list
\* produces no Datasource.  When the earlier steps do not fail it (a literal
\* non-empty provider list, a url that resolves to a non-empty URL, a
\* shadowDatabaseUrl absent or string-shaped) it fails at the guardrail and
\* the preview-features error, at the span of the previewFeatures argument,
\* is the last of its errors, and the only one unless the shadow URL is
\* empty, even when the provider is unknown or rejects the URL; when an
\* earlier step fails it, the preview-features error is not reported.  A
\* block whose previewFeatures is absent or empty is not failed by the
\* guardrail.
C14_PreviewGuardrail ==
    output.ran =>
        \A i \in Blocks :
            LET b == input.ast[i]
                r == Lifted(i)
            IN  /\ NonEmptyPreview(b) =>
                      /\ ~r.ok
                      /\ ReachesGuardrail(b) =>
                            /\ r.at = "preview"
                            /\ r.errors[Len(r.errors)] = PreviewError(i)
                            /\ ShadowFine(b) => r.errors = <<PreviewError(i)>>
                      /\ ~ReachesGuardrail(b) => ~Contains(r.errors, PreviewError(i))
                /\ NoPreview(b) =>
                      /\ r.at # "preview"
                      /\ ~r.ok => ~Contains(r.errors, PreviewError(i))

\* every other field valid, and a non-empty previewFeatures list
C14_Witness ==
    /\ output.ran
    /\ ~input.ignore
    /\ input.overrides = <<>>
    /\ \E i \in Blocks :
          /\ NonEmptyPreview(input.ast[i])
          /\ input.ast[i].provider = [k |-> "str", v |-> "mysql"]
          /\ input.ast[i].url = [k |-> "str", v |-> MYSQL_URL]
          /\ input.ast[i].shadowDatabaseUrl = [k |-> "str", v |-> MYSQL_URL]
          /\ Lifted(i).errors = <<PreviewError(i)>>

\* the error of a url argument that is not a string
UrlTypeError(i) ==
    [kind |-> "TypeMismatchError", expected |-> "String", span |-> ArgSpan(i, URL_KEY)]

\* the (environment variable, URL) pair the claim prescribes for block b
PrescribedUrl(b) ==
    IF input.ignore
    THEN [from_env_var |-> None, value |-> <<Head(DeclaredNames(b)), "://">>]
    ELSE IF HasOverride(b)
    THEN [from_env_var |-> None, value |-> FirstOverride(b)]
    ELSE [from_env_var |-> IF b.url.k = "env" THEN b.url.var ELSE None,
          value |-> trim(WrittenUrl(b))]

\* C16: for a block with a literal provider list and a string-shaped url
\* argument the resolved URL is, by strict priority: with the ignore flag
\* the placeholder of the first declared provider, without variable name,
\* whatever the overrides, the written value or the environment are;
\* otherwise, with an override for the block's name, the override value,
\* without variable name; otherwise the trimmed written or environment
\* value, with the variable name when written as env(..).  A Datasource
\* carries that URL.  With the ignore flag a url value that is not a string
\* fails with its type error.
C16_UrlModePriority ==
    output.ran =>
        \A i \in Blocks :
            LET b == input.ast[i]
                r == Lifted(i)
            IN  /\ (LiteralProvider(b) /\ StringShaped(b.url)) =>
                      /\ r.url = PrescribedUrl(b)
                      /\ r.ok => r.subject.url = PrescribedUrl(b)
                /\ (LiteralProvider(b) /\ input.ignore /\ b.url.k = "num") =>
                      /\ ~r.ok
                      /\ r.at = "url"
                      /\ r.errors = <<UrlTypeError(i)>>

\* the ignore flag with an override for the block and an unset variable
C16_Witness ==
    /\ output.ran
    /\ input.ignore
    /\ \E i \in Blocks :
          /\ HasOverride(input.ast[i])
          /\ FirstOverride(input.ast[i]) = FILE_URL
          /\ input.ast[i].url.k = "env"
          /\ input.env[input.ast[i].url.var] = Unset
          /\ LiteralProvider(input.ast[i])
          /\ Lifted(i).ok
          /\ Lifted(i).subject.url.value = <<"mysql", "://">>

NotKnownError(b, i) ==
    [kind |-> "DatasourceProviderNotKnownError", provider |-> join(DeclaredNames(b)),
     span |-> ArgSpan(i, PROVIDER_KEY)]

NoNotKnownError(errors) ==
    \A n \in 1..Len(errors) : errors[n].kind # "DatasourceProviderNotKnownError"

RECURSIVE MatchedConnectors(_, _)
\* the connectors of the descriptors matching names[n], names[n+1], ...
MatchedConnectors(names, n) ==
    IF n > Len(names) THEN <<>>
    ELSE (IF get_datasource_provider(names[n]) = None THEN <<>>
          ELSE <<[connector |-> get_datasource_provider(names[n])]>>)
         \o MatchedConnectors(names, n + 1)

\* the steps of validation before the registry lookup do not fail b
ReachesLookup(b) == ReachesGuardrail(b) /\ NoPreview(b)

\* C17 as stated: a block with a literal, non-empty provider list none of
\* whose names matches a descriptor fails with the provider-not-known error
\* citing the joined names and the span of the provider argument; with a
\* matching name there is no such error, and a Datasource has the connectors
\* of all matched descriptors in declaration order as combined connector and
\* the declared names as written.
C17_Original ==
    output.ran =>
        \A i \in Blocks :
            LET b == input.ast[i]
                r == Lifted(i)
            IN  LiteralProvider(b) =>
                    IF Recognised(b) = {}
                    THEN ~r.ok /\ Contains(r.errors, NotKnownError(b, i))
                    ELSE /\ ~r.ok => NoNotKnownError(r.errors)
                         /\ r.ok => /\ r.subject.combined_connector =
                                          MatchedConnectors(DeclaredNames(b), 1)
                                    /\ r.subject.provider = DeclaredNames(b)

\* C17 (amended): for a block with a literal, non-empty provider list.  If
\* no declared name matches a descriptor the block produces no Datasource;
\* when the steps before the lookup do not fail it (url resolving to a
\* non-empty URL, shadowDatabaseUrl absent or string-shaped, previewFeatures
\* absent or empty) it fails with the provider-not-known error citing the
\* declared names joined by commas and the span of the provider argument, as
\* the last of its errors and the only one unless the shadow URL is empty;
\* when an earlier step fails it, no provider-not-known error is reported.
\* If a declared name matches, no provider-not-known error is reported, and
\* a Datasource has the connectors of all matched descriptors in declaration
\* order, duplicates kept, as combined connector and the declared names as
\* written.
C17_ProviderLookup ==
    output.ran =>
        \A i \in Blocks :
            LET b == input.ast[i]
                r == Lifted(i)
            IN  LiteralProvider(b) =>
                    IF Recognised(b) = {}
                    THEN /\ ~r.ok
                         /\ ReachesLookup(b) =>
                               /\ r.at = "provider_unknown"
                               /\ r.errors[Len(r.errors)] = NotKnownError(b, i)
                               /\ ShadowFine(b) => r.errors = <<NotKnownError(b, i)>>
                         /\ ~ReachesLookup(b) => NoNotKnownError(r.errors)
                    ELSE /\ ~r.ok => NoNotKnownError(r.errors)
                         /\ r.ok => /\ r.subject.combined_connector =
                                          MatchedConnectors(DeclaredNames(b), 1)
                                    /\ r.subject.provider = DeclaredNames(b)

\* a Datasource from two declared names, the first without a descriptor
C17_Witness ==
    /\ output.ran
    /\ \E i \in Blocks :
          /\ Lifted(i).ok
          /\ Len(DeclaredNames(input.ast[i])) = 2
          /\ Recognised(input.ast[i]) = {2}
          /\ Len(Lifted(i).subject.combined_connector) = 1

(***************************************************************************)
(* Engine lifecycle properties                                             *)
(***************************************************************************)
ConnectCalls == { c \in Calls : kind[c] = "connect" }
QueryCalls == { c \in Calls : kind[c] = "query" }
ConnectFailures == {"NoDataSource", "LoadFailed", "ConnectionFailed"}

\* C1: when a connect call is issued after an earlier connect call returned
\* Ok, it returns AlreadyConnected, and the engine state is still the
\* Connected value (query schema and executor) the first call installed.
C1_SecondConnectRejected ==
    \A c1 \in ConnectCalls, c2 \in ConnectCalls :
        (c1 \in after[c2] /\ result[c1] = "Ok" /\ pc[c2] = "done")
            => (result[c2] = "AlreadyConnected" /\ inner = installed[c1])

C1_Witness ==
    \E c1 \in ConnectCalls, c2 \in ConnectCalls :
        /\ c1 \in after[c2] /\ result[c1] = "Ok" /\ pc[c2] = "done"
        /\ params[c1] # params[c2]

\* C2: a query that inspects the state while it is Builder returns
\* NotConnected in that step without reaching the handler and without
\* changing the state; a query answered NotConnected never reached the
\* handler, and every query that has returned while no connect has yet
\* installed a Connected state was answered NotConnected.
C2_Step ==
    \A c \in Calls :
        (pc[c] = "q_match" /\ pc'[c] # "q_match" /\ inner.tag = "Builder")
            => /\ result'[c] = "NotConnected"
               /\ pc'[c] = "done"
               /\ c \notin dispatched'
               /\ inner' = inner

C2_Inv ==
    \A c \in QueryCalls :
        /\ result[c] = "NotConnected" => c \notin dispatched
        /\ (pc[c] = "done" /\ inner.tag = "Builder")
              => (result[c] = "NotConnected" /\ c \notin dispatched)

C2_QueryBeforeConnect == [][C2_Step]_vars /\ []C2_Inv

C2_Witness ==
    \E c \in QueryCalls, d \in ConnectCalls :
        /\ result[c] = "NotConnected" /\ pc[d] = "c_swap"

\* C3: the step in which a connect call returns a failure (no datasource,
\* executor loading failed, liveness check failed) happens in the Builder
\* state and leaves the state (datamodel and configuration) as it was; a
\* connect call invokes the executor loader at most once.  (That a later
\* connect can succeed is the reachability of C3_Witness.)
C3_Step ==
    \A c \in ConnectCalls :
        (pc[c] # "done" /\ pc'[c] = "done" /\ result'[c] \in ConnectFailures)
            => (inner.tag = "Builder" /\ inner' = inner)

C3_NoRetry == \A c \in Calls : loadCalls[c] <= 1

C3_FailedConnectKeepsBuilder == [][C3_Step]_vars /\ []C3_NoRetry

C3_Witness ==
    \E c1 \in ConnectCalls, c2 \in ConnectCalls, c3 \in ConnectCalls :
        /\ result[c1] = "LoadFailed"
        /\ c1 \in after[c2] /\ result[c2] = "ConnectionFailed"
        /\ c2 \in after[c3] /\ result[c3] = "Ok"
        /\ inner = installed[c3]

\* C4: at most one connect call installs a Connected state; and once every
\* issued connect call has returned without a loader or liveness failure,
\* exactly one returned Ok and every other returned AlreadyConnected.
C4_OneInstall ==
    /\ Cardinality({ c \in Calls : installed[c].tag # None }) <= 1
    /\ Cardinality({ c \in Calls : result[c] = "Ok" }) <= 1
    /\ (/\ ConnectCalls # {}
        /\ \A c \in ConnectCalls : pc[c] = "done" /\ result[c] \notin ConnectFailures)
          => (/\ Cardinality({ c \in ConnectCalls : result[c] = "Ok" }) = 1
              /\ \A c \in ConnectCalls : result[c] \in {"Ok", "AlreadyConnected"})

\* three connect calls in flight together, all returned, none after another
C4_Witness ==
    /\ Cardinality(ConnectCalls) >= 3
    /\ \A c \in ConnectCalls : pc[c] = "done" /\ after[c] = {}
    /\ Cardinality({ c \in ConnectCalls : result[c] = "AlreadyConnected" }) >= 2

\* C5: every change of the engine state is a change from Builder to
\* Connected, a Connected state is never replaced, and no step of a query
\* call changes the engine state.
C5_Step ==
    /\ inner' # inner => (inner.tag = "Builder" /\ inner'.tag = "Connected")
    /\ inner.tag = "Connected" => inner' = inner
    /\ \A c \in QueryCalls : pc'[c] # pc[c] => inner' = inner

C5_SingleTransition == [][C5_Step]_vars

C5_Witness ==
    /\ inner.tag = "Connected"
    /\ \E q \in QueryCalls, c \in ConnectCalls, d \in ConnectCalls :
          /\ result[q] = "Response"
          /\ result[c] = "Ok"
          /\ result[d] = "AlreadyConnected"


\* a connect call between taking the write guard and returning
InCritical(c) == kind[c] = "connect" /\ pc[c] \in {"c_match", "c_load", "c_conn", "c_swap"}

\* a query call between taking the read guard and returning
InDispatch(c) == kind[c] = "query" /\ pc[c] \in {"q_match", "q_handle"}

\* C15: while a connect call is inside its critical section (state read,
\* executor loading, liveness check, swap) no other connect call is inside
\* its own and no query call is dispatching; the engine state does not
\* change while a query call is dispatching; and what a query has read from
\* the state is the executor and query schema of a Connected state that some
\* connect call installed.  (That several queries dispatch at the same time
\* is the reachability of C15_Witness.)
C15_Inv ==
    /\ \A c \in Calls :
          InCritical(c) =>
              \A d \in Calls \ {c} : ~InCritical(d) /\ ~InDispatch(d)
    /\ \A q \in Calls :
          q \in dispatched =>
              \E c \in Calls :
                  /\ installed[c].tag = "Connected"
                  /\ inner = installed[c]
                  /\ seen[q] = [executor |-> installed[c].executor,
                                query_schema |-> installed[c].query_schema]

C15_Step ==
    \A q \in Calls : InDispatch(q) => inner' = inner

C15_CriticalSectionExclusive == [][C15_Step]_vars /\ []C15_Inv

\* two queries inside the handler at the same time
C15_Witness ==
    \E q1 \in Calls, q2 \in Calls :
        /\ q1 # q2
        /\ pc[q1] = "q_handle" /\ pc[q2] = "q_handle"
        /\ q1 \in dispatched /\ q2 \in dispatched
        /\ seen[q1] = seen[q2]

====
